---- MODULE Spec2Model ----
(***************************************************************************)
(* Model of extensions/amp-form/0.1/form-proxy.js: the form proxy          *)
(* (installFormProxy, createFormProxyConstr, setupLegacyProxy) and the     *)
(* photo split-compare slider (AmpPhotoSplitCompare).                      *)
(***************************************************************************)
EXTENDS Integers, Sequences, FiniteSets, TLC

\* ------------------------------------------------------------------------
\* Bounds
\* ------------------------------------------------------------------------
\* inputs in the document (over all forms)
MaxInputs == 2
\* state-changing operations issued through proxies
MaxOps == 1
\* slider: largest width attribute, pointer position, container offset
MaxW == 3
MaxPageX == 4
MaxOffsetLeft == 2

\* ------------------------------------------------------------------------
\* JavaScript values.  Every value is a record [t, v, o]: its type tag, a
\* printable payload, and the form that owns it (for host objects).
\* ------------------------------------------------------------------------
Undefined == [t |-> "undefined", v |-> "", o |-> ""]
Null == [t |-> "null", v |-> "", o |-> ""]
Str(s) == [t |-> "string", v |-> s, o |-> ""]
Bool(b) == [t |-> "boolean", v |-> IF b THEN "true" ELSE "false", o |-> ""]
\* a native object hanging off a form, such as form.style or form.elements
HostObject(f, name) == [t |-> "object", v |-> name, o |-> f]
\* an input element of a form
Elem(f, id) == [t |-> "element", v |-> id, o |-> f]
\* the collection form[name] yields when several inputs carry the name
RadioNodeList(f, name) == [t |-> "radionodelist", v |-> name, o |-> f]
\* the function object found under a method name
Func(name) == [t |-> "function", v |-> name, o |-> ""]
\* an uncaught exception
Throw(what) == [t |-> "throw", v |-> what, o |-> ""]

\* `current && current.nodeType`: only nodes carry a nodeType
HasNodeType(val) == val.t = "element"

\* String(value) as setAttribute applies it
JsString(val) ==
  CASE val.t = "null" -> "null"
    [] val.t = "undefined" -> "undefined"
    [] OTHER -> val.v

\* truthiness of a value
Truthy(val) ==
  CASE val.t = "undefined" -> FALSE
    [] val.t = "null" -> FALSE
    [] val.t = "boolean" -> val.v = "true"
    [] val.t = "string" -> val.v # ""
    [] OTHER -> TRUE

\* value == null (loose): null or undefined
IsNullish(val) == val.t \in {"null", "undefined"}

\* parseUrl(s).href: the URL resolved against the document's base
parseUrlHref(s) == [t |-> "href", v |-> s, o |-> ""]

\* ------------------------------------------------------------------------
\* Property names and their spelling
\* ------------------------------------------------------------------------
Spelling ==
  [ submit |-> <<"s","u","b","m","i","t">>,
    action |-> <<"a","c","t","i","o","n">>,
    elements |-> <<"e","l","e","m","e","n","t","s">>,
    style |-> <<"s","t","y","l","e">>,
    hidden |-> <<"h","i","d","d","e","n">>,
    draggable |-> <<"d","r","a","g","g","a","b","l","e">>,
    title |-> <<"t","i","t","l","e">>,
    onclick |-> <<"o","n","c","l","i","c","k">>,
    id |-> <<"i","d">>,
    className |-> <<"c","l","a","s","s","N","a","m","e">>,
    getAttribute |-> <<"g","e","t","A","t","t","r","i","b","u","t","e">>,
    setAttribute |-> <<"s","e","t","A","t","t","r","i","b","u","t","e">>,
    removeAttribute |-> <<"r","e","m","o","v","e","A","t","t","r","i","b","u","t","e">>,
    ELEMENT_NODE |-> <<"E","L","E","M","E","N","T","_","N","O","D","E">>,
    cloneNode |-> <<"c","l","o","n","e","N","o","d","e">>,
    addEventListener |-> <<"a","d","d","E","v","e","n","t","L","i","s","t","e","n","e","r">> ]

PropNames == DOMAIN Spelling

Lower == <<"a","b","c","d","e","f","g","h","i","j","k","l","m",
           "n","o","p","q","r","s","t","u","v","w","x","y","z">>
Upper == <<"A","B","C","D","E","F","G","H","I","J","K","L","M",
           "N","O","P","Q","R","S","T","U","V","W","X","Y","Z">>

\* one character of String.prototype.toUpperCase
UpperChar(c) ==
  IF \E i \in 1..Len(Lower) : Lower[i] = c
    THEN Upper[CHOOSE i \in 1..Len(Lower) : Lower[i] = c]
    ELSE c

toUpperCase(chars) == [i \in 1..Len(chars) |-> UpperChar(chars[i])]

\* the names with name.toUpperCase() == name
ConstantNames == {n \in PropNames : toUpperCase(Spelling[n]) = Spelling[n]}

IsConstantName(name) == name \in ConstantNames

\* startsWith(name, 'on')
startsWith(chars, prefix) ==
  /\ Len(chars) >= Len(prefix)
  /\ \A i \in 1..Len(prefix) : chars[i] = prefix[i]

\* the names with startsWith(name, 'on')
OnEventNames == {n \in PropNames : startsWith(Spelling[n], <<"o","n">>)}

IsOnEvent(name) == name \in OnEventNames

\* ------------------------------------------------------------------------
\* The host window: the DOM prototypes the constructor walks
\* ------------------------------------------------------------------------
Forms == {"f1", "f2"}

\* names an input of a form may carry in the model's documents
InputNames == {"style", "className", "id", "submit"}

AttrNames == {"id", "class", "title", "action", "hidden", "draggable", "style",
              "accept-charset", "accesskey", "novalidate"}

\* engines: "modern" keeps attributes as accessors on the prototypes;
\* "legacy" (Chrome 45 and under) keeps them on each instance and has no
\* window.EventTarget
Engines == {"modern", "legacy"}

Method == [kind |-> "method", get |-> FALSE, set |-> FALSE]
Accessor(g, s) == [kind |-> "accessor", get |-> g, set |-> s]
DataValue == [kind |-> "value", get |-> FALSE, set |-> FALSE]

\* the attribute properties of a form element, wherever the engine keeps them
AttributeProps ==
  [ action |-> Accessor(TRUE, TRUE), elements |-> Accessor(TRUE, FALSE),
    style |-> Accessor(TRUE, TRUE), hidden |-> Accessor(TRUE, TRUE),
    draggable |-> Accessor(TRUE, TRUE), title |-> Accessor(TRUE, TRUE),
    onclick |-> Accessor(TRUE, TRUE), id |-> Accessor(TRUE, TRUE),
    className |-> Accessor(TRUE, TRUE) ]

\* the interface that declares each attribute property
AttributeHome ==
  [ action |-> "HTMLFormElement", elements |-> "HTMLFormElement",
    style |-> "HTMLElement", hidden |-> "HTMLElement",
    draggable |-> "HTMLElement", title |-> "HTMLElement",
    onclick |-> "HTMLElement", id |-> "Element", className |-> "Element" ]

AttributesOf(klass) ==
  LET names == {n \in DOMAIN AttributeProps : AttributeHome[n] = klass}
  IN  [n \in names |-> AttributeProps[n]]

\* f @@ g without shadowing surprises: g's entries added to f
Merge(f, g) ==
  [n \in DOMAIN f \cup DOMAIN g |-> IF n \in DOMAIN f THEN f[n] ELSE g[n]]

\* win.<klass>.prototype with its own properties, per engine
WinPrototypes(eng) ==
  IF eng = "modern"
    THEN [ HTMLFormElement |-> Merge([submit |-> Method],
                                     AttributesOf("HTMLFormElement")),
           HTMLElement |-> AttributesOf("HTMLElement"),
           Element |-> Merge([getAttribute |-> Method, setAttribute |-> Method,
                              removeAttribute |-> Method],
                             AttributesOf("Element")),
           Node |-> [ELEMENT_NODE |-> DataValue, cloneNode |-> Method],
           EventTarget |-> [addEventListener |-> Method] ]
    ELSE [ HTMLFormElement |-> [submit |-> Method],
           HTMLElement |-> [n \in {} |-> Method],
           Element |-> [getAttribute |-> Method, setAttribute |-> Method,
                        removeAttribute |-> Method],
           Node |-> [ELEMENT_NODE |-> DataValue, cloneNode |-> Method,
                     addEventListener |-> Method] ]

\* ------------------------------------------------------------------------
\* createFormProxyConstr
\* ------------------------------------------------------------------------
inheritance ==
  <<"HTMLFormElement", "HTMLElement", "Element", "Node", "EventTarget">>

\* `for (const name in prototype)`: own and inherited enumerable names
ForInNames(protos, i) ==
  UNION {DOMAIN protos[inheritance[j]] :
           j \in {k \in i..Len(inheritance) : inheritance[k] \in DOMAIN protos}}

\* blacklistedProperties && blacklistedProperties.indexOf(name) != -1
IsBlacklisted(blacklist, name) == (~blacklist.isNull) /\ name \in blacklist.items

\* the walk's `continue` condition without its on-event test
SkipPropertyKeepsOnEvents(hasDescriptor, name, alreadyOwn, blacklist) ==
  \/ ~hasDescriptor
  \/ IsConstantName(name)
  \/ alreadyOwn
  \/ IsBlacklisted(blacklist, name)

\* the `continue` condition of the walk
SkipProperty(hasDescriptor, name, alreadyOwn, blacklist) ==
  \/ ~hasDescriptor
  \/ IsConstantName(name)
  \/ IsOnEvent(name)
  \/ alreadyOwn
  \/ IsBlacklisted(blacklist, name)

\* what the walk installs on FormProxy.prototype for a kept property: a
\* wrapper bound to the property found on klass.prototype
ProxyMember(klass, property) ==
  IF property.kind = "method"
    THEN [kind |-> "method", klass |-> klass, get |-> FALSE, set |-> FALSE]
    ELSE [kind |-> "accessor", klass |-> klass,
          get |-> property.get, set |-> property.set]

RECURSIVE WalkInheritance(_, _, _, _)
WalkInheritance(protos, blacklist, i, FormProxyProto) ==
  IF i > Len(inheritance) THEN FormProxyProto
  ELSE
    LET klass == inheritance[i]
        own == IF klass \in DOMAIN protos THEN protos[klass] ELSE [n \in {} |-> Method]
        names == IF klass \in DOMAIN protos THEN ForInNames(protos, i) ELSE {}
        kept == {n \in names :
                   ~SkipProperty(n \in DOMAIN own, n,
                                 n \in DOMAIN FormProxyProto, blacklist)}
        added == [n \in kept |-> ProxyMember(klass, own[n])]
    IN  WalkInheritance(protos, blacklist, i + 1, Merge(FormProxyProto, added))

createFormProxyConstr(eng, blacklist) ==
  WalkInheritance(WinPrototypes(eng), blacklist, 1, [n \in {} |-> 0])

\* a constructor that keeps one form for every proxy of the window
FormProxySharedForm(form) == "f1"

\* new FormProxy(form): `this.form_ = form`
FormProxy(form) == form

\* ------------------------------------------------------------------------
\* LEGACY_PROPS
\* ------------------------------------------------------------------------
ATTR == 1
READ_ONCE == 2

URL == 1
BOOL == 2
TOGGLE == 3
\* a descriptor that names no `type`
NoDataType == 0

AttrProp(attr, type, def) ==
  [access |-> ATTR, attr |-> attr, type |-> type, def |-> def]
ReadOnceProp ==
  [access |-> READ_ONCE, attr |-> "", type |-> NoDataType, def |-> Undefined]

LEGACY_PROPS ==
  [ acceptCharset |-> AttrProp("accept-charset", NoDataType, Undefined),
    accessKey |-> AttrProp("accesskey", NoDataType, Undefined),
    action |-> AttrProp("", URL, Undefined),
    attributes |-> ReadOnceProp,
    autocomplete |-> AttrProp("", NoDataType, Str("on")),
    children |-> ReadOnceProp,
    dataset |-> ReadOnceProp,
    dir |-> AttrProp("", NoDataType, Undefined),
    draggable |-> AttrProp("", BOOL, Bool(FALSE)),
    elements |-> ReadOnceProp,
    encoding |-> ReadOnceProp,
    enctype |-> AttrProp("", NoDataType, Undefined),
    hidden |-> AttrProp("", TOGGLE, Bool(FALSE)),
    id |-> AttrProp("", NoDataType, Str("")),
    lang |-> AttrProp("", NoDataType, Undefined),
    localName |-> ReadOnceProp,
    method |-> AttrProp("", NoDataType, Str("get")),
    name |-> AttrProp("", NoDataType, Undefined),
    noValidate |-> AttrProp("novalidate", TOGGLE, Bool(FALSE)),
    prefix |-> ReadOnceProp,
    spellcheck |-> AttrProp("", NoDataType, Undefined),
    style |-> ReadOnceProp,
    target |-> AttrProp("", NoDataType, Str("")),
    title |-> AttrProp("", NoDataType, Undefined),
    translate |-> AttrProp("", NoDataType, Undefined) ]

\* const attr = desc.attr || name
LegacyAttr(name) ==
  IF LEGACY_PROPS[name].attr # "" THEN LEGACY_PROPS[name].attr ELSE name

\* ------------------------------------------------------------------------
\* The host DOM: what the browser does for a form element
\* ------------------------------------------------------------------------
NoAttrs == [a \in AttrNames |-> Null]

\* the form's own value of a property, as the DOM interface defines it
NativeGet(f, name, a) ==
  CASE name = "id" -> IF a["id"] = Null THEN Str("") ELSE a["id"]
    [] name = "className" -> IF a["class"] = Null THEN Str("") ELSE a["class"]
    [] name = "title" -> IF a["title"] = Null THEN Str("") ELSE a["title"]
    [] name = "action" ->
         parseUrlHref(IF a["action"] = Null THEN "" ELSE a["action"].v)
    [] name = "hidden" -> Bool(a["hidden"] # Null)
    [] name = "draggable" -> Bool(a["draggable"] = Str("true"))
    [] name \in {"style", "elements"} -> HostObject(f, name)
    [] name = "onclick" -> Null
    [] name = "ELEMENT_NODE" -> [t |-> "number", v |-> "1", o |-> ""]
    [] OTHER -> Func(name)

\* the attributes of the form after the DOM setter of a property ran
NativeSet(name, val, a) ==
  CASE name = "id" -> [a EXCEPT !["id"] = Str(JsString(val))]
    [] name = "className" -> [a EXCEPT !["class"] = Str(JsString(val))]
    [] name = "title" -> [a EXCEPT !["title"] = Str(JsString(val))]
    [] name = "action" -> [a EXCEPT !["action"] = Str(JsString(val))]
    [] name = "style" -> [a EXCEPT !["style"] = Str(JsString(val))]
    [] name = "draggable" -> [a EXCEPT !["draggable"] = Str(JsString(val))]
    [] name = "hidden" ->
         [a EXCEPT !["hidden"] = IF Truthy(val) THEN Str("") ELSE Null]
    [] OTHER -> a

\* the attributes of the form after a DOM method ran on it
NativeCallAttrs(name, args, a) ==
  CASE name = "setAttribute" -> [a EXCEPT ![args[1]] = Str(args[2])]
    [] name = "removeAttribute" -> [a EXCEPT ![args[1]] = Null]
    [] OTHER -> a

\* what a DOM method returns when run on form f
NativeCallResult(f, name, args, a) ==
  CASE name = "getAttribute" -> a[args[1]]
    [] name = "cloneNode" -> HostObject(f, "clone")
    [] OTHER -> Undefined

\* the inputs among the form's children that carry the name
Candidates(inps, kids, name) ==
  {i \in {kids[k] : k \in 1..Len(kids)} : inps[i].name = name}

\* form[name]: a same-named input masks the DOM property
FormGet(f, name, inps, kids, a) ==
  LET c == Candidates(inps, kids, name)
  IN  IF c = {} THEN NativeGet(f, name, a)
      ELSE IF Cardinality(c) = 1 THEN Elem(f, name)
      ELSE RadioNodeList(f, name)

\* Node.removeChild on the list of children
removeChild(kids, element) == SelectSeq(kids, LAMBDA x : x # element)

\* element.nextSibling, 0 for null
nextSiblingOf(kids, element) ==
  LET p == CHOOSE k \in 1..Len(kids) : kids[k] = element
  IN  IF p < Len(kids) THEN kids[p + 1] ELSE 0

\* putting the element back with appendChild, whatever its next sibling was
insertBeforeAppends(kids, element, ref) == Append(kids, element)

\* Node.insertBefore on the list of children (a null reference appends)
insertBefore(kids, element, ref) ==
  IF ref = 0 THEN Append(kids, element)
  ELSE LET p == CHOOSE k \in 1..Len(kids) : kids[k] = ref
       IN  SubSeq(kids, 1, p - 1) \o <<element>> \o SubSeq(kids, p, Len(kids))

\* ------------------------------------------------------------------------
\* setupLegacyProxy
\* ------------------------------------------------------------------------
\* `for (const name in proto)` on the shallow clone of the form: the
\* instance's own properties, then those of its prototype chain
CloneForIn ==
  <<"action", "elements", "style", "hidden", "draggable", "title", "onclick",
    "id", "className", "submit", "getAttribute", "setAttribute",
    "removeAttribute", "ELEMENT_NODE", "cloneNode", "addEventListener">>

\* the own property setupLegacyProxy defines on the proxy
ReadOnceMember(actual) == [how |-> "readOnce", actual |-> actual]
AttrMember == [how |-> "attr", actual |-> Undefined]
DirectMember == [how |-> "direct", actual |-> Undefined]

WithOwn(st, name, member) ==
  [st EXCEPT !.own = Merge(st.own, [n \in {name} |-> member])]

\* the READ_ONCE branch for a property whose current value is a node:
\* remove the overriding input, read, and put the input back
ReadOnceShadowed(f, name, inps, a, throws, st) ==
  LET element == CHOOSE i \in Candidates(inps, st.kids, name) : TRUE
      nextSibling == nextSiblingOf(st.kids, element)
      removed == removeChild(st.kids, element)
      restored == insertBefore(removed, element, nextSibling)
  IN  IF throws
        THEN [st EXCEPT !.kids = restored, !.threw = TRUE]
        ELSE WithOwn([st EXCEPT !.kids = restored], name,
                     ReadOnceMember(FormGet(f, name, inps, removed, a)))

\* one iteration of the loop; st = [kids, own, threw]
LegacyStep(f, name, proto, inps, a, throwOn, st) ==
  IF \/ st.threw
     \/ name \in DOMAIN proto \/ name \in DOMAIN st.own
     \/ IsConstantName(name)
     \/ IsOnEvent(name)
    THEN st
  ELSE IF name \in DOMAIN LEGACY_PROPS
    THEN LET desc == LEGACY_PROPS[name]
             current == FormGet(f, name, inps, st.kids, a)
         IN  IF desc.access = READ_ONCE
               THEN IF HasNodeType(current)
                      THEN ReadOnceShadowed(f, name, inps, a, throwOn = name, st)
                      ELSE WithOwn(st, name, ReadOnceMember(current))
             ELSE IF desc.access = ATTR
               THEN WithOwn(st, name, AttrMember)
             ELSE [st EXCEPT !.threw = TRUE]
  ELSE WithOwn(st, name, DirectMember)

RECURSIVE LegacyLoop(_, _, _, _, _, _, _)
LegacyLoop(f, i, proto, inps, a, throwOn, st) ==
  IF i > Len(CloneForIn) THEN st
  ELSE LegacyLoop(f, i + 1, proto, inps, a, throwOn,
                  LegacyStep(f, CloneForIn[i], proto, inps, a, throwOn, st))

NoOwn == [n \in {} |-> DirectMember]

setupLegacyProxy(f, proto, inps, kids, a, throwOn) ==
  LegacyLoop(f, 1, proto, inps, a, throwOn,
             [kids |-> kids, own |-> NoOwn, threw |-> FALSE])

\* ------------------------------------------------------------------------
\* State
\* ------------------------------------------------------------------------
VARIABLES
  engine,                \* the browser engine of the window
  blacklistedProperties, \* the module-level list, [isNull, items]
  winFormProxy,          \* win.FormProxy: [built, proto, blacklist]
  inputs,                \* the document's inputs: element -> [form, name]
  children,              \* form -> its child inputs in document order
  attrs,                 \* form -> its attributes
  submitted,             \* the forms submit() ran on
  expando,               \* form -> form['$p'], NoProxy if unset
  ops,                   \* state-changing proxy operations issued
  last,                  \* the last operation and what it did
  slider                 \* the AmpPhotoSplitCompare element

vars == <<engine, blacklistedProperties, winFormProxy, inputs, children, attrs,
          submitted, expando, ops, last, slider>>

\* form_ is the field the constructor sets; madeFor is the form
\* installFormProxy was called with, which setupLegacyProxy closes over
NoProxy == [form_ |-> "", own |-> NoOwn, madeFor |-> ""]

NoOp ==
  [op |-> "none", form |-> "", proxy |-> NoProxy, name |-> "", args |-> <<>>,
   arg |-> Undefined, result |-> Undefined, receiver |-> "", klass |-> "",
   touched |-> {}, legacy |-> FALSE, before |-> <<>>]

NullList == [isNull |-> TRUE, items |-> {}]
List(items) == [isNull |-> FALSE, items |-> items]

\* the lists setBlacklistedPropertiesForTesting is called with
BlacklistChoices == {NullList, List({"submit", "id"}), List({"action"})}

\* the documents: up to MaxInputs inputs, each in a form under a name
Documents ==
  UNION {[1..n -> [form : Forms, name : InputNames]] : n \in 0..MaxInputs}

ChildrenOf(inps, f) ==
  SelectSeq([i \in 1..Len(inps) |-> i], LAMBDA i : inps[i].form = f)

\* a CSS length as a style declaration holds it
Px(n) == [unit |-> "px", n |-> n]
Percent(n) == [unit |-> "%", n |-> n]
NoLength == [unit |-> "", n |-> 0]

\* new AmpPhotoSplitCompare(element) on an element whose width attribute is
\* w and whose first image container will lie at offsetLeft
NewSlider(w, offsetLeft) ==
  [built |-> FALSE, width |-> w, offsetLeft |-> offsetLeft,
   elementWidth |-> NoLength, image1Width |-> NoLength, sliderLeft |-> NoLength,
   listeners |-> {}, startX |-> -1, startWidth |-> -1,
   gesture |-> "none", event |-> "none", pageX |-> 0,
   threw |-> FALSE, assigned |-> FALSE, before |-> NoLength]

SliderUnbuilt == NewSlider(1, 0)

\* a window with the given documents to choose from, before any install
InitForm(docs) ==
  /\ engine \in Engines
  /\ blacklistedProperties = NullList
  /\ winFormProxy = [built |-> FALSE, proto |-> [n \in {} |-> 0],
                     blacklist |-> NullList]
  /\ inputs \in docs
  /\ children = [f \in Forms |-> ChildrenOf(inputs, f)]
  /\ attrs = [f \in Forms |-> NoAttrs]
  /\ submitted = {}
  /\ expando = [f \in Forms |-> NoProxy]
  /\ ops = 0
  /\ last = NoOp

\* ------------------------------------------------------------------------
\* Operations of the form proxy
\* ------------------------------------------------------------------------
setBlacklistedPropertiesForTesting(properties) ==
  /\ blacklistedProperties' = properties
  /\ last' = [NoOp EXCEPT !.op = "blacklist"]
  /\ UNCHANGED <<engine, winFormProxy, inputs, children, attrs, submitted,
                 expando, ops, slider>>

\* getFormProxyConstr: build the constructor once per window
getFormProxyConstr ==
  IF ~winFormProxy.built
    THEN [built |-> TRUE,
          proto |-> createFormProxyConstr(engine, blacklistedProperties),
          blacklist |-> blacklistedProperties]
    ELSE winFormProxy

installFormProxy(form, throwOn) ==
  /\ LET constr == getFormProxyConstr
         legacy == "action" \notin DOMAIN constr.proto
         st == IF legacy
                 THEN setupLegacyProxy(form, constr.proto, inputs,
                                       children[form], attrs[form], throwOn)
                 ELSE [kids |-> children[form], own |-> NoOwn, threw |-> FALSE]
         proxy == [form_ |-> FormProxy(form), own |-> st.own, madeFor |-> form]
     IN  /\ winFormProxy' = constr
         /\ children' = [children EXCEPT ![form] = st.kids]
         /\ IF st.threw
              THEN /\ UNCHANGED expando
                   /\ last' = [NoOp EXCEPT !.op = "install", !.form = form,
                                           !.legacy = legacy,
                                           !.before = children[form],
                                           !.result = Throw(throwOn)]
              ELSE /\ expando' = [expando EXCEPT ![form] = proxy]
                   /\ last' = [NoOp EXCEPT !.op = "install", !.form = form,
                                           !.legacy = legacy,
                                           !.before = children[form],
                                           !.proxy = proxy]
  /\ UNCHANGED <<engine, blacklistedProperties, inputs, attrs, submitted, ops,
                 slider>>

\* the getter of an ATTR legacy property, applied to what getAttribute gave
LegacyAttrGet(name, value) ==
  LET desc == LEGACY_PROPS[name]
  IN  IF IsNullish(value) /\ desc.def # Undefined THEN desc.def
      ELSE IF desc.type = BOOL THEN Bool(value = Str("true"))
      ELSE IF desc.type = TOGGLE THEN Bool(~IsNullish(value))
      ELSE IF desc.type = URL
        THEN parseUrlHref(IF Truthy(value) THEN value.v ELSE "")
      ELSE value

\* the setter of an ATTR legacy property: the value it hands on
LegacyAttrSet(name, value) ==
  IF LEGACY_PROPS[name].type = TOGGLE
    THEN IF Truthy(value) THEN Str("") ELSE Null
    ELSE value

HasMethod(proto, name) == name \in DOMAIN proto /\ proto[name].kind = "method"

Outcome(result, receiver, klass) ==
  [result |-> result, receiver |-> receiver, klass |-> klass]

\* reading proxy[name]: own properties first, then FormProxy.prototype
ProxyRead(proxy, name, proto, inps, kids, as) ==
  IF name \in DOMAIN proxy.own
    THEN LET member == proxy.own[name]
         IN  CASE member.how = "readOnce" -> Outcome(member.actual, "", "")
               [] member.how = "attr" ->
                    IF HasMethod(proto, "getAttribute")
                      THEN Outcome(LegacyAttrGet(name,
                                     as[proxy.form_][LegacyAttr(name)]),
                                   proxy.form_, proto["getAttribute"].klass)
                      ELSE Outcome(Throw("TypeError"), "", "")
               [] OTHER ->
                    Outcome(FormGet(proxy.madeFor, name, inps,
                                    kids[proxy.madeFor], as[proxy.madeFor]),
                            proxy.madeFor, "")
  ELSE IF name \in DOMAIN proto
    THEN IF proto[name].kind = "method" THEN Outcome(Func(name), "", "")
         ELSE IF proto[name].get
           THEN Outcome(NativeGet(proxy.form_, name, as[proxy.form_]),
                        proxy.form_, proto[name].klass)
         ELSE Outcome(Undefined, "", "")
  ELSE Outcome(Undefined, "", "")

\* writing proxy[name] = val: the attributes of every form afterwards
ProxyWrite(proxy, name, val, proto, inps, kids, as) ==
  IF name \in DOMAIN proxy.own
    THEN LET member == proxy.own[name]
             handed == LegacyAttrSet(name, val)
         IN  CASE member.how = "readOnce" -> as
               [] member.how = "attr" ->
                    IF ~IsNullish(handed)
                      THEN IF HasMethod(proto, "setAttribute")
                             THEN [as EXCEPT ![proxy.form_][LegacyAttr(name)] =
                                     Str(JsString(handed))]
                             ELSE as
                      ELSE IF HasMethod(proto, "removeAttribute")
                             THEN [as EXCEPT ![proxy.form_][LegacyAttr(name)] = Null]
                             ELSE as
               [] OTHER ->
                    IF Candidates(inps, kids[proxy.madeFor], name) # {} THEN as
                    ELSE [as EXCEPT ![proxy.madeFor] = NativeSet(name, val, @)]
  ELSE IF name \in DOMAIN proto /\ proto[name].kind = "accessor" /\ proto[name].set
    THEN [as EXCEPT ![proxy.form_] = NativeSet(name, val, @)]
  ELSE as

\* the receiver of the native setter a write reaches, "" if none
ProxyWriteReceiver(proxy, name, proto) ==
  IF name \in DOMAIN proxy.own
    THEN CASE proxy.own[name].how = "readOnce" -> ""
           [] proxy.own[name].how = "attr" -> proxy.form_
           [] OTHER -> proxy.madeFor
  ELSE IF name \in DOMAIN proto /\ proto[name].kind = "accessor" /\ proto[name].set
    THEN proxy.form_
  ELSE ""

\* the forms an operation changed
Touched(as2, sub2) ==
  {g \in Forms : as2[g] # attrs[g] \/ (g \in sub2) # (g \in submitted)}

\* reading form.$p[name]
ProxyGet(form, name) ==
  /\ expando[form] # NoProxy
  /\ LET out == ProxyRead(expando[form], name, winFormProxy.proto, inputs,
                          children, attrs)
     IN  last' = [NoOp EXCEPT !.op = "get", !.form = form,
                              !.name = name, !.result = out.result,
                              !.receiver = out.receiver, !.klass = out.klass]
  /\ UNCHANGED <<engine, blacklistedProperties, winFormProxy, inputs, children,
                 attrs, submitted, expando, ops, slider>>

\* the properties and values written through proxies
SetNames == {"id", "hidden", "style", "className", "elements"}
SetValues == {Null, Str("a")}

\* form.$p[name] = val
ProxySet(form, name, val) ==
  /\ expando[form] # NoProxy
  /\ ops < MaxOps
  /\ LET proto == winFormProxy.proto
         as2 == ProxyWrite(expando[form], name, val, proto, inputs, children,
                           attrs)
     IN  /\ attrs' = as2
         /\ last' = [NoOp EXCEPT !.op = "set", !.form = form,
                                 !.name = name, !.arg = val,
                                 !.receiver =
                                   ProxyWriteReceiver(expando[form], name, proto),
                                 !.klass = IF name \in DOMAIN proto
                                             THEN proto[name].klass ELSE "",
                                 !.touched = Touched(as2, submitted)]
  /\ ops' = ops + 1
  /\ UNCHANGED <<engine, blacklistedProperties, winFormProxy, inputs, children,
                 submitted, expando, slider>>

\* the calls issued through proxies: <<method name, arguments>>
CallInputs ==
  { <<"submit", <<>>>>, <<"getAttribute", <<"id">>>>,
    <<"setAttribute", <<"id", "b">>>>, <<"removeAttribute", <<"id">>>>,
    <<"cloneNode", <<>>>>, <<"addEventListener", <<>>>> }

\* form.$p[name](...args): `return method.apply(this.form_, arguments)`
ProxyCall(form, name, args) ==
  /\ expando[form] # NoProxy
  /\ ops < MaxOps
  /\ LET proto == winFormProxy.proto
         this == expando[form]
     IN  IF HasMethod(proto, name)
           THEN LET as2 == [attrs EXCEPT ![this.form_] =
                              NativeCallAttrs(name, args, @)]
                    sub2 == IF name = "submit"
                              THEN submitted \cup {this.form_} ELSE submitted
                IN  /\ attrs' = as2
                    /\ submitted' = sub2
                    /\ last' = [NoOp EXCEPT
                                  !.op = "call", !.form = form,
                                  !.name = name, !.args = args,
                                  !.result = NativeCallResult(this.form_, name,
                                               args, attrs[this.form_]),
                                  !.receiver = this.form_,
                                  !.klass = proto[name].klass,
                                  !.touched = Touched(as2, sub2)]
           ELSE /\ UNCHANGED <<attrs, submitted>>
                /\ last' = [NoOp EXCEPT !.op = "call", !.form = form,
                                        !.name = name, !.args = args,
                                        !.result = Throw("TypeError")]
  /\ ops' = ops + 1
  /\ UNCHANGED <<engine, blacklistedProperties, winFormProxy, inputs, children,
                 expando, slider>>

\* the reads of form[name] that may throw during setupLegacyProxy
ThrowChoices == {"none", "style"}

Install == \E form \in Forms, throwOn \in ThrowChoices : installFormProxy(form, throwOn)
Read == \E form \in Forms, name \in PropNames : ProxyGet(form, name)
ReadMasked == \E form \in Forms, name \in InputNames : ProxyGet(form, name)
Write == \E form \in Forms, name \in SetNames, val \in SetValues : ProxySet(form, name, val)
Call == \E form \in Forms, c \in CallInputs : ProxyCall(form, c[1], c[2])
SetBlacklist == \E properties \in BlacklistChoices : setBlacklistedPropertiesForTesting(properties)

\* Production use on documents whose inputs mask form properties: proxies
\* are installed and the properties an input can mask are read.
Next == Install \/ ReadMasked
Init == InitForm(Documents) /\ slider = SliderUnbuilt
Spec == Init /\ [][Next]_vars

\* Use of the proxies: calls, reads and writes on two forms of one window.
CallDocuments == {<<>>, <<[form |-> "f1", name |-> "className"]>>}
NextCalls == Install \/ Read \/ Write \/ Call
InitCalls == InitForm(CallDocuments) /\ slider = SliderUnbuilt
CallSpec == InitCalls /\ [][NextCalls]_vars

\* Tests: the blacklist is set between installs.
NextBuild == SetBlacklist \/ Install \/ Read
InitBuild == InitForm({<<>>}) /\ slider = SliderUnbuilt
BuildSpec == InitBuild /\ [][NextBuild]_vars

\* ------------------------------------------------------------------------
\* AmpPhotoSplitCompare
\* ------------------------------------------------------------------------
\* the setter of style.width: a declaration that does not parse as a width
\* (a negative length) is dropped and the old value stays
SetStyleWidth(old, new) == IF new.n < 0 THEN old ELSE new

\* the assigned width computed from pageX alone
MovedWidthNoOffset(pageX, offsetLeft, w) ==
  IF pageX < w THEN Px(pageX) ELSE Px(w)

\* the value whileSliderMoving assigns to image1Container_.style.width
MovedWidth(pageX, offsetLeft, w) ==
  IF pageX - offsetLeft < w THEN Px(pageX - offsetLeft) ELSE Px(w)

\* an event that reaches no listener, or whose handler reads nothing
Dispatched(type, pageX) ==
  [slider EXCEPT !.event = type, !.pageX = pageX, !.threw = FALSE,
                 !.assigned = FALSE, !.before = slider.image1Width]

buildCallback ==
  /\ ~slider.built
  /\ slider' = [slider EXCEPT
       !.built = TRUE,
       !.elementWidth = Px(slider.width),
       !.image1Width = Percent(49),
       !.listeners = {"mousedown", "touchstart", "touchmove", "touchend"},
       !.event = "build"]
  /\ UNCHANGED <<engine, blacklistedProperties, winFormProxy, inputs, children,
                 attrs, submitted, expando, ops, last>>

\* sliderBeginsMoving(e) for an event that carries touches
sliderBeginsMoving(type, pageX) ==
  [Dispatched(type, pageX) EXCEPT !.startX = pageX,
                                  !.startWidth = slider.elementWidth.n]

\* sliderBeginsMoving(e) for a MouseEvent: e.touches is undefined and
\* e.touches[0] throws a TypeError
sliderBeginsMovingNoTouches(type, pageX) ==
  [Dispatched(type, pageX) EXCEPT !.threw = TRUE]

whileSliderMoving(pageX) ==
  LET width == SetStyleWidth(slider.image1Width,
                 MovedWidth(pageX, slider.offsetLeft, slider.width))
  IN  [Dispatched("touchmove", pageX) EXCEPT !.image1Width = width,
                                             !.sliderLeft = width,
                                             !.assigned = TRUE]

SliderUnchanged ==
  UNCHANGED <<engine, blacklistedProperties, winFormProxy, inputs, children,
              attrs, submitted, expando, ops, last>>

TouchStart(pageX) ==
  /\ slider.built /\ slider.gesture = "none"
  /\ slider' = [(IF "touchstart" \in slider.listeners
                   THEN sliderBeginsMoving("touchstart", pageX)
                   ELSE Dispatched("touchstart", pageX))
                EXCEPT !.gesture = "touch"]
  /\ SliderUnchanged

TouchMove(pageX) ==
  /\ slider.built /\ slider.gesture = "touch"
  /\ slider' = IF "touchmove" \in slider.listeners
                 THEN whileSliderMoving(pageX)
                 ELSE Dispatched("touchmove", pageX)
  /\ SliderUnchanged

\* whenSliderStops(e) does nothing
TouchEnd ==
  /\ slider.built /\ slider.gesture = "touch"
  /\ slider' = [Dispatched("touchend", slider.pageX) EXCEPT !.gesture = "none"]
  /\ SliderUnchanged

MouseDown(pageX) ==
  /\ slider.built /\ slider.gesture = "none"
  /\ slider' = [(IF "mousedown" \in slider.listeners
                   THEN sliderBeginsMovingNoTouches("mousedown", pageX)
                   ELSE Dispatched("mousedown", pageX))
                EXCEPT !.gesture = "mouse"]
  /\ SliderUnchanged

\* no listener is registered for mousemove or mouseup
MouseMove(pageX) ==
  /\ slider.built /\ slider.gesture = "mouse"
  /\ slider' = Dispatched("mousemove", pageX)
  /\ SliderUnchanged

MouseUp ==
  /\ slider.built /\ slider.gesture = "mouse"
  /\ slider' = [Dispatched("mouseup", slider.pageX) EXCEPT !.gesture = "none"]
  /\ SliderUnchanged

InitSlider ==
  /\ InitForm({<<>>})
  /\ slider \in {NewSlider(w, o) : w \in 1..MaxW, o \in 0..MaxOffsetLeft}

NextSlider ==
  \/ buildCallback
  \/ \E pageX \in 0..MaxPageX : TouchStart(pageX)
  \/ \E pageX \in 0..MaxPageX : TouchMove(pageX)
  \/ TouchEnd
  \/ \E pageX \in 0..MaxPageX : MouseDown(pageX)
  \/ \E pageX \in 0..MaxPageX : MouseMove(pageX)
  \/ MouseUp

SliderSpec == InitSlider /\ [][NextSlider]_vars

\* ------------------------------------------------------------------------
\* Properties
\* ------------------------------------------------------------------------
\* the names form.$p answers for: own properties and FormProxy.prototype's
DefinedOn(proxy) == DOMAIN proxy.own \cup DOMAIN winFormProxy.proto

Shadowed(f, name) == Candidates(inputs, children[f], name) # {}

\* C1: for every name N defined on the proxy, on the prototype path or the
\* legacy path, that an input of the form shadows, reading form.$p[N] gives
\* the form's native DOM value of N and never the shadowing input.
C1_ShadowedReadIsNative ==
  (/\ last.op = "get"
   /\ last.name \in DefinedOn(expando[last.form])
   /\ Shadowed(last.form, last.name))
  => /\ last.result.t \notin {"element", "radionodelist"}
     /\ last.result = NativeGet(last.form, last.name, attrs[last.form])

\* the klass whose prototype holds the original property
IsOriginalHome(klass, name) ==
  /\ klass \in DOMAIN WinPrototypes(engine)
  /\ name \in DOMAIN WinPrototypes(engine)[klass]

\* C2: after installFormProxy(form) returns P, form.$p is P and P is bound
\* to that form only: a method call on P runs the original prototype method
\* on the form with the call's arguments and returns its result, an accessor
\* read or write runs the original getter or setter on the form, and no
\* operation on one form's proxy reads or changes the other form.
C2_ProxyBoundToItsForm ==
  LET proto == winFormProxy.proto
      viaProto == /\ last.name \in DOMAIN proto
                  /\ last.name \notin DOMAIN expando[last.form].own
  IN
  /\ (last.op = "install" /\ last.result.t # "throw")
       => /\ expando[last.form] = last.proxy
          /\ last.proxy.form_ = last.form
  /\ \A f \in Forms : expando[f] # NoProxy => expando[f].form_ = f
  /\ (last.op = "call" /\ viaProto /\ proto[last.name].kind = "method")
       => /\ last.receiver = last.form
          /\ IsOriginalHome(last.klass, last.name)
          /\ last.name = "getAttribute"
               => last.result = attrs[last.form][last.args[1]]
          /\ last.name = "setAttribute"
               => attrs[last.form][last.args[1]] = Str(last.args[2])
          /\ last.name = "removeAttribute"
               => attrs[last.form][last.args[1]] = Null
          /\ last.name = "submit" => last.form \in submitted
  /\ (last.op = "get" /\ viaProto /\ proto[last.name].kind = "accessor"
        /\ proto[last.name].get)
       => /\ last.receiver = last.form
          /\ IsOriginalHome(last.klass, last.name)
          /\ last.result = NativeGet(last.form, last.name, attrs[last.form])
  /\ (last.op = "set" /\ viaProto /\ proto[last.name].kind = "accessor"
        /\ proto[last.name].set)
       => /\ last.receiver = last.form
          /\ IsOriginalHome(last.klass, last.name)
          /\ last.name = "id" => attrs[last.form]["id"] = Str(JsString(last.arg))
  /\ last.op \in {"call", "get", "set"}
       => /\ last.receiver \in {"", last.form}
          /\ last.touched \subseteq {last.form}

C2_Witness ==
  /\ expando["f1"] # NoProxy /\ expando["f2"] # NoProxy
  /\ last.op = "call" /\ last.form = "f2" /\ last.name = "setAttribute"
  /\ last.receiver = "f2"
  /\ attrs["f2"]["id"] = Str("b") /\ attrs["f1"]["id"] = Null

\* C3 as stated: after every touchmove at pageX the first image container is
\* (pageX - offsetLeft) px wide when that is less than the width attribute W
\* and W px wide otherwise, and the handle's left offset equals that width.
C3_WidthIsPointerOffset ==
  slider.event = "touchmove"
    => /\ slider.image1Width =
            (IF slider.pageX - slider.offsetLeft < slider.width
               THEN Px(slider.pageX - slider.offsetLeft) ELSE Px(slider.width))
       /\ slider.sliderLeft = slider.image1Width

\* C3 amended: after every touchmove at pageX, with d = pageX - offsetLeft,
\* the first image container is d px wide when 0 <= d < W, W px wide when
\* d >= W, and as wide as before the event when d < 0; the handle's left
\* offset equals the container's width in every case.
C3_WidthIsPointerOffsetFromZero ==
  slider.event = "touchmove"
    => LET d == slider.pageX - slider.offsetLeft
       IN  /\ (0 <= d /\ d < slider.width) => slider.image1Width = Px(d)
           /\ d >= slider.width => slider.image1Width = Px(slider.width)
           /\ d < 0 => slider.image1Width = slider.before
           /\ slider.sliderLeft = slider.image1Width

C3_Witness ==
  /\ slider.event = "touchmove"
  /\ slider.offsetLeft > 0
  /\ slider.pageX - slider.offsetLeft > 0
  /\ slider.pageX - slider.offsetLeft < slider.width
  /\ slider.image1Width = Px(slider.pageX - slider.offsetLeft)
  /\ slider.before # slider.image1Width

\* C4: the widget wires mouse and touch listeners, and a drag of either kind
\* (mousedown then pointer movement, touchstart then touchmove) runs without
\* an exception and updates the first image container's width.
C4_BothDragKindsUpdateWidth ==
  /\ ~slider.threw
  /\ slider.event \in {"mousemove", "touchmove"} => slider.assigned

\* the properties of the walked prototypes the filter is meant to keep
ExcludedName(name, blacklist) ==
  \/ toUpperCase(Spelling[name]) = Spelling[name]
  \/ (Len(Spelling[name]) >= 2 /\ Spelling[name][1] = "o" /\ Spelling[name][2] = "n")
  \/ (~blacklist.isNull /\ name \in blacklist.items)

\* C5: the proxy prototype never carries a constant (a name equal to its
\* upper-case form), an on-event name, or a name blacklisted when the
\* constructor was built; every other own property of the walked prototypes
\* is defined on it.
C5_PrototypeFiltered ==
  winFormProxy.built
    => LET protos == WinPrototypes(engine)
       IN  /\ \A n \in DOMAIN winFormProxy.proto :
                ~ExcludedName(n, winFormProxy.blacklist)
           /\ \A k \in DOMAIN protos : \A n \in DOMAIN protos[k] :
                ~ExcludedName(n, winFormProxy.blacklist)
                  => n \in DOMAIN winFormProxy.proto

C5_Witness ==
  /\ winFormProxy.built
  /\ engine = "modern"
  /\ winFormProxy.blacklist = List({"submit", "id"})
  /\ blacklistedProperties = List({"action"})
  /\ "action" \in DOMAIN winFormProxy.proto
  /\ "submit" \notin DOMAIN winFormProxy.proto
  /\ expando["f1"] # NoProxy

\* C6: in the legacy fallback, a READ_ONCE property shadowed by an input is
\* read with the input taken out and put back before its next sibling, also
\* when the read throws: installFormProxy leaves every form's children and
\* their order as they were, and the proxy property answers every later
\* read with the value captured at install, the form's own value.
C6_ReadOnceRestoresChildren ==
  /\ \A f \in Forms : children[f] = ChildrenOf(inputs, f)
  /\ last.op = "install" => children[last.form] = last.before
  /\ \A f \in Forms : \A n \in DOMAIN expando[f].own :
       (expando[f].own[n].how = "readOnce"
          /\ Cardinality(Candidates(inputs, children[f], n)) = 1)
         => expando[f].own[n].actual = HostObject(f, n)
  /\ (last.op = "get" /\ last.name \in DOMAIN expando[last.form].own
        /\ expando[last.form].own[last.name].how = "readOnce")
       => /\ last.result = expando[last.form].own[last.name].actual
          /\ Cardinality(Candidates(inputs, children[last.form], last.name)) = 1
               => last.result = NativeGet(last.form, last.name, attrs[last.form])

C6_Witness ==
  /\ last.op = "get" /\ last.name = "style"
  /\ "style" \in DOMAIN expando[last.form].own
  /\ expando[last.form].own["style"].how = "readOnce"
  /\ Len(children[last.form]) >= 2
  /\ inputs[children[last.form][1]].name = "style"
  /\ Cardinality(Candidates(inputs, children[last.form], "style")) = 1
  /\ last.result = HostObject(last.form, "style")

====
